---- MODULE Spec2Model ----
(***************************************************************************)
(* Model of the two task requesters of nodes/demo_scripts:                 *)
(*   dispatch_arm_task.py              (prog = "arm")                      *)
(*   dispatch_couple_decouple_action.py (prog = "couple")                  *)
(* A TaskRequester node is the record `node`; its callbacks are delivered  *)
(* one at a time by the executor while main() spins on node.response.      *)
(***************************************************************************)
EXTENDS Integers, Sequences, FiniteSets, TLC

(* ------------------------------ bounds -------------------------------- *)
\* number of distinct uuid4 values a request identifier is drawn from
MaxIds == 2
\* "Waiting for ... to become available" lines that are counted
MaxWaitLogs == 2
\* responses with another request identifier that are counted
MaxIgnored == 1

(* ------------------------------ inputs -------------------------------- *)
NoneStr == "None"
Uuids == 1..MaxIds
\* request_id of an ApiResponse on task_api_responses; 0 is the empty string
ResponseIds == 0..MaxIds
ResponsePayloads == {"success", "error"}
ZoneNames == {"Z1", "Z2"}
Places == <<"wp1", "wp2">>
\* --start_time: seconds from now
StartOffsets == {0, 3}
\* readings of self.get_clock().now().to_msg(): sec and nanosec of a Time
ClockSecs == {10}
ClockNanosecs == {0, 1500000, 2500000, 999500000}
Times == [sec : ClockSecs, nanosec : ClockNanosecs]

Services == {"mm_zone_query", "effector_query"}

ArmArgs ==
  [prog : {"arm"},
   action : {"arm_action", "scan"},
   object_name : {"", "bin7"},
   action2 : {"", "pick"},
   object_name2 : {"", "bin8"},
   start_time : StartOffsets]

CoupleArgs ==
  [prog : {"couple"},
   action : {"couple", "decouple", "dock"},
   object_name : {""},
   action2 : {""},
   object_name2 : {""},
   start_time : StartOffsets]

\* the attributes argparse sets on self.args of the couple/decouple requester
\* (the dest of every add_argument, lines 44-145)
CoupleNamespace ==
  {"pickups", "dropoffs", "pickup_handlers", "dropoff_handlers",
   "pickup_payloads", "dropoff_payloads", "fleet", "robot", "start_time",
   "priority", "use_sim_time", "requester", "action", "zone_name",
   "candidates_fleet", "candidates_robot", "number_of_robots"}

\* result of future.result() of a CheckMmZone call; none = TRUE is `None`
ZoneResults ==
  [none : {FALSE}, is_mm_zone : BOOLEAN, zone_name : ZoneNames \cup {""}]
    \cup {[none |-> TRUE, is_mm_zone |-> FALSE, zone_name |-> ""]}

\* result of future.result() of a CheckEffector call
EffectorResults ==
  [none : {FALSE}, effector_ready : BOOLEAN]
    \cup {[none |-> TRUE, effector_ready |-> FALSE]}

(* ------------------------------ state --------------------------------- *)
VARIABLES
  args,        \* parsed command line
  node,        \* the TaskRequester instance
  pc,          \* position of main(): "init", "send", "waitlog", "spin", "done"
  todo,        \* verification requests __init__ has still to send
  inflight,    \* requests sent with call_async whose done callback has not run
  delivered,   \* completions handled so far, in order
  available,   \* services that wait_for_service finds
  wait_logs,   \* "Waiting for ... to become available" lines logged
  stdout,      \* lines printed by main()
  raised,      \* exception that left main() uncaught, or ""
  ignored,     \* responses api_response_callback did not match
  last_event   \* the callback or step taken last

vars == <<args, node, pc, todo, inflight, delivered, available, wait_logs,
          stdout, raised, ignored, last_event>>

(* ------------------------- asyncio.Future ----------------------------- *)
PendingFuture == [state |-> "PENDING", result |-> NoneStr]

done(fut) == fut.state # "PENDING"

\* Future.cancel(): no effect on a future that is already done
cancel(fut) ==
  IF done(fut) THEN fut ELSE [state |-> "CANCELLED", result |-> NoneStr]

\* Future.set_result(): raises InvalidStateError on a future that is done
set_result_raises(fut) == done(fut)

\* mutant: a future whose result can be set again (rclpy.task.Future)
set_result_overwrites(fut, value) == [state |-> "FINISHED", result |-> value]

set_result(fut, value) ==
  IF done(fut) THEN fut ELSE [state |-> "FINISHED", result |-> value]

(* ---------------------- TaskRequester (arm task) ---------------------- *)
\* fields set by lines 132-156 of __init__
NewNode ==
  [response |-> PendingFuture,
   msg_request_id |-> 0,
   object_zone_name |-> NoneStr,
   object_zone_name2 |-> NoneStr,
   zone_requests_pending |-> 0,
   effector_checks_pending |-> 0,
   published |-> <<>>,
   subscriptions |-> 0,
   ready_checks |-> 0,
   effects |-> <<>>,
   clock |-> [sec |-> 0, nanosec |-> 0]]

\* round(x / 10**6) of Python 3: to the nearest integer, a tie to the even one
RoundMillis(nanosec) ==
  LET q == nanosec \div 1000000
      r == nanosec % 1000000
  IN IF 2 * r < 1000000 THEN q
     ELSE IF 2 * r > 1000000 THEN q + 1
     ELSE IF q % 2 = 0 THEN q ELSE q + 1

\* mutant: the offset is added after the conversion, still in seconds
unix_millis_start_time_offset_late(now, start_time) ==
  now.sec * 1000 + RoundMillis(now.nanosec) + start_time

\* lines 310-312 (and 182-184 of the couple/decouple requester)
unix_millis_start_time(now, start_time) ==
  LET sec == now.sec + start_time
  IN sec * 1000 + RoundMillis(now.nanosec)

PerformAction(action) ==
  [category |-> "perform_action", action |-> action, zone |-> "",
   places |-> <<>>]

ZoneActivity(zone_name, places) ==
  [category |-> "zone", action |-> "", zone |-> zone_name, places |-> places]

add_action_activities(activities, action, object_name, zone_name, places) ==
  IF object_name # ""
    THEN IF zone_name # NoneStr
           THEN activities \o <<ZoneActivity(zone_name, places),
                                PerformAction(action)>>
           ELSE activities
    ELSE activities \o <<PerformAction(action)>>

\* mutant: the second action's activities are added before the first's
create_dispatch_arm_task_second_first(self, a, uuid) ==
  LET second == IF a.action2 # ""
                  THEN add_action_activities(<<>>, a.action2, a.object_name2,
                                             self.object_zone_name2, Places)
                  ELSE <<>>
      both == add_action_activities(second, a.action, a.object_name,
                                    self.object_zone_name, Places)
  IN [request_id |-> uuid,
      category |-> "compose",
      description_category |-> a.action,
      activities |-> both,
      unix_millis_earliest_start_time |->
        unix_millis_start_time(self.clock, a.start_time)]

\* mutant: description.category names the last configured action
create_dispatch_arm_task_last_category(self, a, uuid) ==
  LET first == add_action_activities(<<>>, a.action, a.object_name,
                                     self.object_zone_name, Places)
      both == IF a.action2 # ""
                THEN add_action_activities(first, a.action2, a.object_name2,
                                           self.object_zone_name2, Places)
                ELSE first
  IN [request_id |-> uuid,
      category |-> "compose",
      description_category |-> IF a.action2 # "" THEN a.action2 ELSE a.action,
      activities |-> both,
      unix_millis_earliest_start_time |->
        unix_millis_start_time(self.clock, a.start_time)]

create_dispatch_arm_task(self, a, uuid) ==
  LET first == add_action_activities(<<>>, a.action, a.object_name,
                                     self.object_zone_name, Places)
      both == IF a.action2 # ""
                THEN add_action_activities(first, a.action2, a.object_name2,
                                           self.object_zone_name2, Places)
                ELSE first
  IN [request_id |-> uuid,
      category |-> "compose",
      description_category |-> a.action,
      activities |-> both,
      unix_millis_earliest_start_time |->
        unix_millis_start_time(self.clock, a.start_time)]

\* mutant: the subscription is created first, before the message exists
send_dispatch_arm_task_subscribe_first(self, a, uuid) ==
  LET msg == create_dispatch_arm_task(self, a, uuid)
  IN [self EXCEPT !.subscriptions = @ + 1,
                  !.published = Append(@, msg),
                  !.msg_request_id = msg.request_id,
                  !.effects = @ \o <<"subscribe", "publish", "request_id">>]

send_dispatch_arm_task(self, a, uuid) ==
  LET msg == create_dispatch_arm_task(self, a, uuid)
  IN [self EXCEPT !.published = Append(@, msg),
                  !.msg_request_id = msg.request_id,
                  !.subscriptions = @ + 1,
                  !.effects = @ \o <<"publish", "request_id", "subscribe">>]

\* mutant: the gate opens when either counter is zero
ReadyToDispatch_either(self) ==
  self.zone_requests_pending = 0 \/ self.effector_checks_pending = 0

ReadyToDispatch(self) ==
  self.zone_requests_pending = 0 /\ self.effector_checks_pending = 0

check_if_ready_to_dispatch(self, a, uuid) ==
  LET s == [self EXCEPT !.ready_checks = @ + 1]
  IN IF ReadyToDispatch(s) THEN send_dispatch_arm_task(s, a, uuid) ELSE s

ZoneResultOk(result) ==
  ~result.none /\ result.is_mm_zone /\ result.zone_name # ""

\* mutant: the zone name of the response is not tested
zone_callback_flag_only(self, a, result, is_second, uuid) ==
  IF result.none
    THEN [self EXCEPT !.response = cancel(@)]
  ELSE IF ~result.is_mm_zone
    THEN [self EXCEPT !.response = cancel(@)]
  ELSE
    LET stored == IF is_second
                    THEN [self EXCEPT !.object_zone_name2 = result.zone_name]
                    ELSE [self EXCEPT !.object_zone_name = result.zone_name]
        counted == [stored EXCEPT !.zone_requests_pending = @ - 1]
    IN check_if_ready_to_dispatch(counted, a, uuid)

\* mutant: the confirmed zone is stored in the other slot's attribute
zone_callback_other_slot(self, a, result, is_second, uuid) ==
  IF result.none
    THEN [self EXCEPT !.response = cancel(@)]
  ELSE IF ~result.is_mm_zone \/ result.zone_name = ""
    THEN [self EXCEPT !.response = cancel(@)]
  ELSE
    LET stored == IF is_second
                    THEN [self EXCEPT !.object_zone_name = result.zone_name]
                    ELSE [self EXCEPT !.object_zone_name2 = result.zone_name]
        counted == [stored EXCEPT !.zone_requests_pending = @ - 1]
    IN check_if_ready_to_dispatch(counted, a, uuid)

zone_request_service_callback(self, a, result, is_second, uuid) ==
  IF result.none
    THEN [self EXCEPT !.response = cancel(@)]
  ELSE IF ~result.is_mm_zone \/ result.zone_name = ""
    THEN [self EXCEPT !.response = cancel(@)]
  ELSE
    LET stored == IF is_second
                    THEN [self EXCEPT !.object_zone_name2 = result.zone_name]
                    ELSE [self EXCEPT !.object_zone_name = result.zone_name]
        counted == [stored EXCEPT !.zone_requests_pending = @ - 1]
    IN check_if_ready_to_dispatch(counted, a, uuid)

EffectorResultOk(result) == ~result.none /\ result.effector_ready

\* mutant: an effector that is not ready is counted like one that is
effector_callback_no_ready_test(self, a, result, is_second, uuid) ==
  IF result.none
    THEN [self EXCEPT !.response = cancel(@)]
  ELSE
    LET counted == [self EXCEPT !.effector_checks_pending = @ - 1]
    IN check_if_ready_to_dispatch(counted, a, uuid)

effector_query_service_callback(self, a, result, is_second, uuid) ==
  IF result.none
    THEN [self EXCEPT !.response = cancel(@)]
  ELSE IF ~result.effector_ready
    THEN [self EXCEPT !.response = cancel(@)]
  ELSE
    LET counted == [self EXCEPT !.effector_checks_pending = @ - 1]
    IN check_if_ready_to_dispatch(counted, a, uuid)

\* mutant: the callback without the request_id comparison
api_response_callback_any_id(self, request_id, json_msg) ==
  [self EXCEPT !.response = set_result(@, json_msg)]

api_response_callback(self, request_id, json_msg) ==
  IF request_id = self.msg_request_id
    THEN [self EXCEPT !.response = set_result(@, json_msg)]
    ELSE self

\* mutant: a future that is not done is reported as cancelled
main_prints_not_done_cancelled(fut) ==
  IF done(fut)
    THEN IF fut.state = "CANCELLED"
           THEN <<"Task cancelled">>
           ELSE <<"Got response">>
    ELSE <<"Task cancelled">>

\* the try block of main(): response.result() raises CancelledError for a
\* cancelled future
main_prints(fut) ==
  IF done(fut)
    THEN IF fut.state = "CANCELLED"
           THEN <<"Task cancelled">>
           ELSE <<"Got response">>
    ELSE <<"Did not get a response">>

\* the requests lines 172-181 send, in the order they are sent
ZoneRequest(object_name, is_second) ==
  [kind |-> "zone", service |-> "mm_zone_query", target |-> object_name,
   is_second |-> is_second]

EffectorQuery(action_name, is_second) ==
  [kind |-> "effector", service |-> "effector_query", target |-> action_name,
   is_second |-> is_second]

\* mutant: the second zone request does not depend on a second action
RequestsToSend_zone2_without_action2(a) ==
  (IF a.object_name # ""
     THEN <<ZoneRequest(a.object_name, FALSE)>> ELSE <<>>)
  \o (IF a.object_name2 # ""
        THEN <<ZoneRequest(a.object_name2, TRUE)>> ELSE <<>>)
  \o <<EffectorQuery(a.action, FALSE)>>
  \o (IF a.action2 # "" THEN <<EffectorQuery(a.action2, TRUE)>> ELSE <<>>)

RequestsToSend(a) ==
  (IF a.object_name # ""
     THEN <<ZoneRequest(a.object_name, FALSE)>> ELSE <<>>)
  \o (IF a.action2 # "" /\ a.object_name2 # ""
        THEN <<ZoneRequest(a.object_name2, TRUE)>> ELSE <<>>)
  \o <<EffectorQuery(a.action, FALSE)>>
  \o (IF a.action2 # "" THEN <<EffectorQuery(a.action2, TRUE)>> ELSE <<>>)

\* mutant: the second effector check is not counted
CountPending_one_effector(self, a) ==
  [self EXCEPT
     !.zone_requests_pending =
        @ + (IF a.object_name # "" THEN 1 ELSE 0)
          + (IF a.action2 # "" /\ a.object_name2 # "" THEN 1 ELSE 0),
     !.effector_checks_pending = @ + 1]

CountPending(self, a) ==
  [self EXCEPT
     !.zone_requests_pending =
        @ + (IF a.object_name # "" THEN 1 ELSE 0)
          + (IF a.action2 # "" /\ a.object_name2 # "" THEN 1 ELSE 0),
     !.effector_checks_pending =
        @ + 1 + (IF a.action2 # "" THEN 1 ELSE 0)]

(* ------------------- TaskRequester (couple/decouple) ------------------ *)
\* the exception __init__ ends with, or "": the action test of line 239,
\* then self.args.zone read at line 246 or 254
\* mutant: __init__ without the action test of line 239
couple_init_raises_no_action_test(a) ==
  IF "zone" \notin CoupleNamespace THEN "AttributeError" ELSE ""

couple_init_raises(a) ==
  IF a.action \notin {"couple", "decouple"} THEN "ValueError"
  ELSE IF "zone" \notin CoupleNamespace THEN "AttributeError"
  ELSE ""

CoupleActivity(action) ==
  [category |-> IF action = "couple" THEN "couple_action"
                                     ELSE "decouple_action",
   action |-> action, zone |-> "", places |-> <<>>]

\* lines 168-282: the message is built, the subscription created (line 276)
\* and then the message published (line 282)
couple_init(self, a, uuid) ==
  IF couple_init_raises(a) # "" THEN self
  ELSE
    LET msg == [request_id |-> uuid,
                category |-> "compose",
                description_category |-> "testing_couple_decouple_action",
                activities |-> <<CoupleActivity(a.action)>>,
                unix_millis_earliest_start_time |->
                  unix_millis_start_time(self.clock, a.start_time)]
    IN [self EXCEPT !.msg_request_id = msg.request_id,
                    !.subscriptions = @ + 1,
                    !.published = Append(@, msg),
                    !.effects = @ \o <<"request_id", "subscribe", "publish">>]

Event(kind, req, ok) == [kind |-> kind, req |-> req, ok |-> ok, id |-> 0]
NoRequest == [kind |-> "", service |-> "", target |-> "", is_second |-> FALSE]

(* ------------------------------ actions ------------------------------- *)
Init ==
  /\ args \in ArmArgs \cup CoupleArgs
  /\ node \in {[NewNode EXCEPT !.clock = now] : now \in Times}
  /\ pc = "init"
  /\ todo = <<>>
  /\ inflight = {}
  /\ delivered = <<>>
  /\ available \in SUBSET Services
  /\ wait_logs = 0
  /\ stdout = <<>>
  /\ raised = ""
  /\ ignored = 0
  /\ last_event = Event("start", NoRequest, TRUE)

\* mutant: __init__ without the 'arm_action' test of line 158
ArmInit_no_arm_action_test ==
  /\ pc = "init"
  /\ args.prog = "arm"
  /\ node' = CountPending(node, args)
  /\ todo' = RequestsToSend(args)
  /\ pc' = "send"
  /\ last_event' = Event("init", NoRequest, TRUE)
  /\ UNCHANGED <<args, inflight, delivered, available, wait_logs, stdout,
                 raised, ignored>>

\* TaskRequester.__init__ up to the first send_* call (lines 149-170)
ArmInit ==
  /\ pc = "init"
  /\ args.prog = "arm"
  /\ IF args.action = "arm_action"
       THEN /\ \E uuid \in Uuids :
                 node' = send_dispatch_arm_task(node, args, uuid)
            /\ todo' = <<>>
            /\ pc' = "spin"
       ELSE /\ node' = CountPending(node, args)
            /\ todo' = RequestsToSend(args)
            /\ pc' = "send"
  /\ last_event' = Event("init", NoRequest, TRUE)
  /\ UNCHANGED <<args, inflight, delivered, available, wait_logs, stdout,
                 raised, ignored>>

\* `while not client.wait_for_service(timeout_sec=5.0)`: the wait times out
WaitForService ==
  /\ pc = "send"
  /\ todo # <<>>
  /\ Head(todo).service \notin available
  /\ pc' = "waitlog"
  /\ last_event' = Event("wait", Head(todo), FALSE)
  /\ UNCHANGED <<args, node, todo, inflight, delivered, available, wait_logs,
                 stdout, raised, ignored>>

\* the body of that loop: log "Waiting for ... to become available..." and
\* test again
WaitLog ==
  /\ pc = "waitlog"
  /\ wait_logs' = IF wait_logs < MaxWaitLogs THEN wait_logs + 1 ELSE wait_logs
  /\ pc' = "send"
  /\ last_event' = Event("log", Head(todo), FALSE)
  /\ UNCHANGED <<args, node, todo, inflight, delivered, available, stdout,
                 raised, ignored>>

\* wait_for_service succeeds, the request is sent with call_async
SendRequest ==
  /\ pc = "send"
  /\ todo # <<>>
  /\ Head(todo).service \in available
  /\ inflight' = inflight \cup {Head(todo)}
  /\ todo' = Tail(todo)
  /\ pc' = IF Tail(todo) = <<>> THEN "spin" ELSE "send"
  /\ last_event' = Event("send", Head(todo), TRUE)
  /\ UNCHANGED <<args, node, delivered, available, wait_logs, stdout, raised,
                 ignored>>

\* the environment: a service comes up
ServiceUp ==
  /\ pc # "done"
  /\ \E s \in Services \ available : available' = available \cup {s}
  /\ last_event' = Event("service_up", NoRequest, TRUE)
  /\ UNCHANGED <<args, node, pc, todo, inflight, delivered, wait_logs, stdout,
                 raised, ignored>>

\* the executor runs callbacks while spin_until_future_complete spins; with
\* late = FALSE it stops at the first resolution of node.response
Spinning(late) == pc = "spin" /\ (late \/ ~done(node.response))

ZoneCompletion(late) ==
  /\ Spinning(late)
  /\ \E req \in inflight, result \in ZoneResults, uuid \in Uuids :
       /\ req.kind = "zone"
       /\ node' = zone_request_service_callback(node, args, result,
                                                 req.is_second, uuid)
       /\ inflight' = inflight \ {req}
       /\ delivered' = Append(delivered,
                              [req |-> req, ok |-> ZoneResultOk(result),
                               is_mm_zone |-> result.is_mm_zone,
                               zone_name |-> result.zone_name])
       /\ last_event' = Event("zone", req, ZoneResultOk(result))
  /\ UNCHANGED <<args, pc, todo, available, wait_logs, stdout, raised,
                 ignored>>

EffectorCompletion(late) ==
  /\ Spinning(late)
  /\ \E req \in inflight, result \in EffectorResults, uuid \in Uuids :
       /\ req.kind = "effector"
       /\ node' = effector_query_service_callback(node, args, result,
                                                   req.is_second, uuid)
       /\ inflight' = inflight \ {req}
       /\ delivered' = Append(delivered,
                              [req |-> req, ok |-> EffectorResultOk(result),
                               is_mm_zone |-> FALSE, zone_name |-> ""])
       /\ last_event' = Event("effector", req, EffectorResultOk(result))
  /\ UNCHANGED <<args, pc, todo, available, wait_logs, stdout, raised,
                 ignored>>

\* api_response_callback, run for a message on task_api_responses once the
\* subscription of send_dispatch_arm_task exists
ApiResponse(late) ==
  /\ Spinning(late)
  /\ node.subscriptions > 0
  /\ \E request_id \in ResponseIds, json_msg \in ResponsePayloads :
       /\ last_event' = [Event("response", NoRequest,
                               request_id = node.msg_request_id)
                           EXCEPT !.id = request_id]
       /\ node' = api_response_callback(node, request_id, json_msg)
       /\ IF request_id = node.msg_request_id
            THEN /\ ignored' = ignored
                 /\ IF set_result_raises(node.response)
                      THEN raised' = "InvalidStateError" /\ pc' = "done"
                      ELSE UNCHANGED <<pc, raised>>
            ELSE /\ ignored' = IF ignored < MaxIgnored
                                 THEN ignored + 1 ELSE ignored
                 /\ UNCHANGED <<pc, raised>>
  /\ UNCHANGED <<args, todo, inflight, delivered, available, wait_logs,
                 stdout>>

\* main() after spin_until_future_complete returns (lines 425-433): the spin
\* returns when node.response is done or when timeout_sec has elapsed
MainReport ==
  /\ pc = "spin"
  /\ stdout' = stdout \o main_prints(node.response)
  /\ pc' = "done"
  /\ last_event' = Event(IF done(node.response) THEN "complete" ELSE "timeout",
                         NoRequest, done(node.response))
  /\ UNCHANGED <<args, node, todo, inflight, delivered, available, wait_logs,
                 raised, ignored>>

\* TaskRequester.__init__ of dispatch_couple_decouple_action.py: the action
\* is validated at line 239; a valid action reads self.args.zone, which the
\* parser (it defines --zone_name) never sets
CoupleInit ==
  /\ pc = "init"
  /\ args.prog = "couple"
  /\ \E uuid \in Uuids : node' = couple_init(node, args, uuid)
  /\ raised' = couple_init_raises(args)
  /\ pc' = IF couple_init_raises(args) # "" THEN "done" ELSE "spin"
  /\ last_event' = Event("init", NoRequest, couple_init_raises(args) = "")
  /\ UNCHANGED <<args, todo, inflight, delivered, available, wait_logs,
                 stdout, ignored>>

Next ==
  \/ ArmInit
  \/ CoupleInit
  \/ WaitForService
  \/ WaitLog
  \/ SendRequest
  \/ ServiceUp
  \/ ZoneCompletion(FALSE)
  \/ EffectorCompletion(FALSE)
  \/ ApiResponse(FALSE)
  \/ MainReport

Spec == Init /\ [][Next]_vars

\* the same callbacks under an executor that goes on delivering completions
\* and responses after node.response is resolved, until main() reports
LateNext ==
  \/ ArmInit
  \/ CoupleInit
  \/ WaitForService
  \/ WaitLog
  \/ SendRequest
  \/ ServiceUp
  \/ ZoneCompletion(TRUE)
  \/ EffectorCompletion(TRUE)
  \/ ApiResponse(TRUE)
  \/ MainReport

LateSpec == Init /\ [][LateNext]_vars

\* the steps the process takes by itself; a service coming up, a completion
\* and a response are up to the environment
ProgramStep ==
  ArmInit \/ CoupleInit \/ WaitForService \/ WaitLog \/ SendRequest
    \/ MainReport

FairSpec == Init /\ [][Next]_vars /\ WF_vars(ProgramStep)

(* ------------------------------ claims -------------------------------- *)
\* the verification requests the configuration issues
NumRequests ==
  IF args.prog = "arm" /\ args.action # "arm_action"
    THEN Len(RequestsToSend(args)) ELSE 0

AllSucceeded ==
  /\ Len(delivered) = NumRequests
  /\ \A i \in 1..Len(delivered) : delivered[i].ok

FailureReported == \E i \in 1..Len(delivered) : ~delivered[i].ok

PublishStep == Len(node'.published) > Len(node.published)

CompletionStep == Len(delivered') = Len(delivered) + 1

\* C1: with N >= 1 verification requests the task message is published at
\* most once, and exactly once iff all N completions were successes, in any
\* delivery order; the publishing step is a decrement that leaves both
\* pending counters at zero.
C1_PublishIffAllSucceed ==
  /\ [](NumRequests >= 1 =>
          /\ Len(node.published) <= 1
          /\ (Len(node.published) = 1 <=> AllSucceeded))
  /\ [][(NumRequests >= 1 /\ PublishStep) =>
          /\ CompletionStep
          /\ node'.zone_requests_pending = 0
          /\ node'.effector_checks_pending = 0
          /\ node'.zone_requests_pending + node'.effector_checks_pending
               = node.zone_requests_pending + node.effector_checks_pending - 1
        ]_vars

\* C1 witness: four requests, the zone checks completing after the effector
\* checks and slot 2 before slot 1, and the message published
C1_Witness ==
  /\ NumRequests = 4
  /\ AllSucceeded
  /\ delivered[1].req = EffectorQuery(args.action2, TRUE)
  /\ delivered[4].req = ZoneRequest(args.object_name, FALSE)
  /\ Len(node.published) = 1

\* C2: once a completion has reported a failure the outcome is cancelled and
\* nothing is published, in that state and in every later one, whatever
\* completions (successes or further failures) follow; main() then reports
\* 'Task cancelled'.
C2_FailureCancels ==
  FailureReported =>
    /\ node.response.state = "CANCELLED"
    /\ node.published = <<>>
    /\ pc = "done" => stdout = <<"Task cancelled">>

\* C2 witness: a failure, then a success, then another failure
C2_Witness ==
  /\ Len(delivered) >= 3
  /\ ~delivered[1].ok
  /\ delivered[2].ok
  /\ ~delivered[3].ok
  /\ node.response.state = "CANCELLED"

NothingIssued == todo = <<>> /\ inflight = {} /\ delivered = <<>>

\* C4 as stated: a single action with no object name needs no prerequisite;
\* once __init__ has run the message is published once and nothing is issued.
C4_SingleActionNoObjectImmediate ==
  (/\ args.prog = "arm"
   /\ args.action2 = ""
   /\ args.object_name = ""
   /\ pc # "init") =>
     Len(node.published) = 1 /\ NothingIssued

\* C4 amended: the configurations with zero prerequisites are those whose
\* action is 'arm_action'; for them __init__ publishes the message, exactly
\* once in the run, and no zone request or effector query is ever issued.
C4_ArmActionImmediate ==
  (args.prog = "arm" /\ args.action = "arm_action" /\ pc # "init") =>
    /\ Len(node.published) = 1
    /\ NothingIssued
    /\ node.zone_requests_pending = 0
    /\ node.effector_checks_pending = 0

\* C4 witness: an 'arm_action' run that has ended, published by __init__
C4_Witness ==
  /\ args.prog = "arm"
  /\ args.action = "arm_action"
  /\ args.action2 = "pick"
  /\ pc = "done"
  /\ Len(node.published) = 1

\* C5: every run of the arm-task requester ends with one of the three
\* outcomes printed, whatever the services do.
C5_AlwaysTerminates ==
  (args.prog = "arm") => <>(pc = "done" /\ Len(stdout) = 1)

\* C6: a verification whose service was not found within the bounded wait
\* cancels the outcome, publishes nothing and is not waited for again.
C6_UnavailableCancels ==
  wait_logs >= 1 =>
    /\ node.response.state = "CANCELLED"
    /\ node.published = <<>>
    /\ wait_logs = 1
    /\ pc \notin {"send", "waitlog"}

\* C7: the outcome is resolved at most once and never changes afterwards: a
\* done future keeps its state and result under later responses and
\* completions, and main() reports one outcome.
C7_SingleAssignment ==
  [][/\ done(node.response) => node'.response = node.response
     /\ stdout # <<>> => stdout' = stdout
     /\ Len(stdout') <= 1
    ]_vars

\* C7 witness: a second matching response was delivered to a resolved outcome
C7_Witness ==
  /\ node.response.state = "FINISHED"
  /\ last_event.kind = "response"
  /\ last_event.id = node.msg_request_id
  /\ raised = "InvalidStateError"

\* C8: a run ends as timed out only after the message was published.
C8_TimeoutOnlyAfterPublish ==
  (args.prog = "arm" /\ stdout = <<"Did not get a response">>) =>
    Len(node.published) = 1

\* C9: a run that published (all prerequisites succeeded) and got no matching
\* response before the wait elapsed reports 'Did not get a response', never
\* 'Task cancelled', and reports one outcome only.
C9_TimeoutDistinctFromCancelled ==
  /\ Len(stdout) <= 1
  /\ (/\ args.prog = "arm"
      /\ pc = "done"
      /\ raised = ""
      /\ Len(node.published) >= 1
      /\ ~done(node.response)) =>
        stdout = <<"Did not get a response">>
  /\ stdout = <<"Task cancelled">> =>
        node.published = <<>> /\ node.response.state = "CANCELLED"

\* C9 witness: all four prerequisites succeeded, a response for another
\* request was ignored, the wait elapsed
C9_Witness ==
  /\ NumRequests = 4
  /\ AllSucceeded
  /\ Len(node.published) = 1
  /\ ignored >= 1
  /\ pc = "done"
  /\ stdout = <<"Did not get a response">>

\* C10: the outcome becomes succeeded only in a response step whose
\* request_id is that of the one published message; a response with another
\* request_id leaves the node, main() and the output unchanged.
C10_OnlyMatchingResponseResolves ==
  [][/\ (node'.response.state = "FINISHED"
          /\ node.response.state # "FINISHED") =>
            /\ last_event'.kind = "response"
            /\ Len(node.published) = 1
            /\ last_event'.id = node.published[1].request_id
     /\ (/\ ignored' # ignored \/ (last_event'.kind = "response"
                                      /\ ~last_event'.ok)) =>
            UNCHANGED <<node, pc, stdout, raised, inflight, delivered>>
    ]_vars

\* C10 witness: a response with another request_id was ignored and the
\* matching one then resolved the outcome
C10_Witness ==
  /\ ignored >= 1
  /\ node.response.state = "FINISHED"
  /\ last_event.kind = "response"
  /\ last_event.id = node.published[1].request_id

ExpectedSlot(action, object_name, zone_attribute) ==
  IF object_name # ""
    THEN <<ZoneActivity(zone_attribute, Places), PerformAction(action)>>
    ELSE <<PerformAction(action)>>

ArmPublished == IF args.prog = "arm" THEN node.published ELSE <<>>

\* C12: in a published task description a slot with an object name
\* contributes a zone activity (its zone attribute, the configured places)
\* followed by perform_action, a slot without one a single perform_action.
C12_SlotActivities ==
  \A n \in 1..Len(ArmPublished) :
    ArmPublished[n].activities =
      ExpectedSlot(args.action, args.object_name, node.object_zone_name)
      \o (IF args.action2 # ""
            THEN ExpectedSlot(args.action2, args.object_name2,
                              node.object_zone_name2)
            ELSE <<>>)

IsPerform(activity, name) ==
  activity.category = "perform_action" /\ activity.action = name

\* C13: the activities are one flat sequence of zone and perform_action
\* entries; a zone entry is directly followed by a perform_action, and no
\* entry of the second action comes before the first action's perform_action.
C13_FlatFirstThenSecond ==
  \A n \in 1..Len(ArmPublished) :
    LET acts == ArmPublished[n].activities
    IN /\ \A i \in 1..Len(acts) :
            /\ acts[i].category \in {"zone", "perform_action"}
            /\ acts[i].category = "zone" =>
                  i < Len(acts) /\ acts[i + 1].category = "perform_action"
       /\ \A i \in 1..Len(acts) :
            IsPerform(acts[i], args.action) =>
              \A j \in 1..(i - 1) :
                /\ ~IsPerform(acts[j], args.action2)
                /\ args.action2 # "" /\ args.object_name2 # "" =>
                     (acts[j].category = "zone" => j = i - 1)

\* C13 witness: two actions with an object each, four activities published
C13_Witness ==
  /\ Len(ArmPublished) = 1
  /\ args.action2 # ""
  /\ Len(ArmPublished[1].activities) = 4
  /\ node.object_zone_name # node.object_zone_name2

\* C14 as stated: the outer category and description.category both name
\* the first action.
C14_BothCategoriesFirstAction ==
  \A n \in 1..Len(ArmPublished) :
    /\ ArmPublished[n].category = args.action
    /\ ArmPublished[n].description_category = args.action

\* C14 amended: the outer category is 'compose' and description.category is
\* the first action's name, with or without a second action.
C14_ComposeAndFirstAction ==
  \A n \in 1..Len(ArmPublished) :
    /\ ArmPublished[n].category = "compose"
    /\ ArmPublished[n].description_category = args.action

\* C14 witness: a message published with a second action configured
C14_Witness ==
  /\ Len(ArmPublished) = 1
  /\ args.action2 = "pick"
  /\ args.action = "scan"
  /\ ArmPublished[1].description_category = "scan"

SeqToSet(seq) == {seq[i] : i \in 1..Len(seq)}

ExpectedZoneChecks ==
  (IF args.object_name # ""
     THEN {ZoneRequest(args.object_name, FALSE)} ELSE {})
  \cup (IF args.action2 # "" /\ args.object_name2 # ""
          THEN {ZoneRequest(args.object_name2, TRUE)} ELSE {})

ExpectedEffectorChecks ==
  {EffectorQuery(args.action, FALSE)}
  \cup (IF args.action2 # "" THEN {EffectorQuery(args.action2, TRUE)} ELSE {})

\* completions of one kind that succeeded
Succeeded(kind) ==
  Cardinality({i \in 1..Len(delivered) :
                 delivered[i].ok /\ delivered[i].req.kind = kind})

\* the checks sent or queued are the expected ones, each once, and each
\* counter is its total less the successes delivered
ChecksAsConfigured ==
  /\ SeqToSet(todo) \cup inflight \cup {delivered[i].req :
                                           i \in 1..Len(delivered)}
       = ExpectedZoneChecks \cup ExpectedEffectorChecks
  /\ Len(todo) + Cardinality(inflight) + Len(delivered)
       = Cardinality(ExpectedZoneChecks \cup ExpectedEffectorChecks)
  /\ node.zone_requests_pending
       = Cardinality(ExpectedZoneChecks) - Succeeded("zone")
  /\ node.effector_checks_pending
       = Cardinality(ExpectedEffectorChecks) - Succeeded("effector")

\* C15 as stated: every configuration gets a zone check per slot with an
\* object name and an effector check per action, each once, the counters
\* holding the totals from before the first request.
C15_ChecksForEveryConfiguration ==
  (args.prog = "arm" /\ pc # "init") => ChecksAsConfigured

\* C15 amended: that holds for every configuration whose action is not
\* 'arm_action'; for 'arm_action' no check is issued or counted.
C15_ChecksUnlessArmAction ==
  (args.prog = "arm" /\ pc # "init") =>
    IF args.action # "arm_action"
      THEN ChecksAsConfigured
      ELSE /\ NothingIssued
           /\ node.zone_requests_pending = 0
           /\ node.effector_checks_pending = 0

\* C15 witness: one zone check and two effector checks sent, none completed,
\* the second object name given without a zone check of its own
C15_Witness ==
  /\ args.action = "scan"
  /\ args.object_name = ""
  /\ args.object_name2 = "bin8"
  /\ args.action2 = "pick"
  /\ Cardinality(inflight) = 3
  /\ node.zone_requests_pending = 1
  /\ node.effector_checks_pending = 2

\* C16: both pending counters are >= 0 in every state, in every order of
\* completions, those delivered after a failure included.
C16_CountersNonNegative ==
  /\ node.zone_requests_pending >= 0
  /\ node.effector_checks_pending >= 0

\* C16 witness: every check completed, the first as a failure, the rest as
\* successes delivered after it
C16_Witness ==
  /\ NumRequests = 4
  /\ Len(delivered) = 4
  /\ ~delivered[1].ok
  /\ \A i \in 2..4 : delivered[i].ok
  /\ node.zone_requests_pending + node.effector_checks_pending = 1

\* the zone name the zone check of a slot was answered with
ConfirmedZone(is_second) ==
  LET i == CHOOSE i \in 1..Len(delivered) :
             /\ delivered[i].req.kind = "zone"
             /\ delivered[i].req.is_second = is_second
  IN delivered[i].zone_name

\* a gated publish is the step of a readiness check that finds both counters
\* at zero, and no zone attribute changes once the message is composed
ZonesReadAtGate ==
  /\ (NumRequests >= 1 /\ PublishStep) =>
       (/\ node'.ready_checks = node.ready_checks + 1
        /\ ReadyToDispatch(node'))
  /\ (node.published # <<>>) =>
       (/\ node'.object_zone_name = node.object_zone_name
        /\ node'.object_zone_name2 = node.object_zone_name2)

\* C17: a gated publish happens in the step whose readiness check finds both
\* counters at zero, the zone attributes do not change afterwards, and the
\* zone activity of each slot carries the zone its own check confirmed.
C17_OwnConfirmedZone ==
  /\ [](\A n \in 1..Len(ArmPublished) :
          LET acts == ArmPublished[n].activities
          IN /\ (NumRequests >= 1 /\ args.object_name # "") =>
                  (/\ Len(acts) >= 2
                   /\ acts[1] = ZoneActivity(ConfirmedZone(FALSE), Places)
                   /\ IsPerform(acts[2], args.action))
             /\ (NumRequests >= 1 /\ args.action2 # ""
                                  /\ args.object_name2 # "") =>
                  (/\ Len(acts) >= 2
                   /\ acts[Len(acts) - 1]
                        = ZoneActivity(ConfirmedZone(TRUE), Places)
                   /\ IsPerform(acts[Len(acts)], args.action2)))
  /\ [][ZonesReadAtGate]_vars

\* C17 witness: slot 2's zone confirmed before slot 1's, with another name
C17_Witness ==
  /\ Len(ArmPublished) = 1
  /\ NumRequests = 4
  /\ delivered[1].req = ZoneRequest(args.object_name2, TRUE)
  /\ delivered[1].zone_name = "Z1"
  /\ delivered[4].req = ZoneRequest(args.object_name, FALSE)
  /\ delivered[4].zone_name = "Z2"

\* C18: an action other than 'couple' or 'decouple' makes the couple/decouple
\* requester raise ValueError with nothing published and no subscription.
C18_MalformedFailsFast ==
  (/\ args.prog = "couple"
   /\ args.action \notin {"couple", "decouple"}
   /\ pc # "init") =>
     /\ raised = "ValueError"
     /\ pc = "done"
     /\ node.published = <<>>
     /\ node.subscriptions = 0
     /\ node.effects = <<>>

\* C18 witness: the run with action 'dock' has ended
C18_Witness ==
  /\ args.prog = "couple"
  /\ args.action = "dock"
  /\ raised = "ValueError"
  /\ pc = "done"

\* C19 as stated: the start time is (sec + offset) * 1000 plus the
\* millisecond part of the current time (0..999).
C19_TruncatedMillis ==
  \A n \in 1..Len(ArmPublished) :
    ArmPublished[n].unix_millis_earliest_start_time
      = (node.clock.sec + args.start_time) * 1000
          + (node.clock.nanosec \div 1000000)

Abs(x) == IF x < 0 THEN 0 - x ELSE x

\* C19 amended: the start time is (sec + offset) * 1000 plus the nanoseconds
\* rounded to the nearest millisecond (a tie to the even one), 0..1000.
C19_RoundedMillis ==
  \A n \in 1..Len(ArmPublished) :
    LET ms == ArmPublished[n].unix_millis_earliest_start_time
                - (node.clock.sec + args.start_time) * 1000
        off == Abs(ms * 1000000 - node.clock.nanosec)
    IN /\ ms \in 0..1000
       /\ 2 * off <= 1000000
       /\ 2 * off = 1000000 => ms % 2 = 0

\* C19 witness: an offset of 3 s and a clock 0.5 ms short of the next second
C19_Witness ==
  /\ Len(ArmPublished) = 1
  /\ args.start_time = 3
  /\ node.clock.nanosec = 999500000
  /\ ArmPublished[1].unix_millis_earliest_start_time
       = (node.clock.sec + 3) * 1000 + 1000

\* C20: every published task description has one perform_action activity
\* per configured action.
C20_OnePerformPerAction ==
  \A n \in 1..Len(ArmPublished) :
    LET acts == ArmPublished[n].activities
    IN Cardinality({i \in 1..Len(acts) :
                      acts[i].category = "perform_action"})
         = IF args.action2 # "" THEN 2 ELSE 1

\* the step of a zone completion: accepted only with the flag and a name;
\* a rejection cancels, decrements nothing, stores nothing, publishes nothing
ZoneResponseStep ==
  (CompletionStep /\ last_event'.kind = "zone") =>
    LET d == delivered'[Len(delivered')]
        stored == IF d.req.is_second THEN node'.object_zone_name2
                                     ELSE node'.object_zone_name
    IN IF d.is_mm_zone /\ d.zone_name # ""
         THEN /\ node'.zone_requests_pending = node.zone_requests_pending - 1
              /\ stored = d.zone_name
         ELSE /\ node'.response.state = "CANCELLED"
              /\ node'.zone_requests_pending = node.zone_requests_pending
              /\ node'.object_zone_name = node.object_zone_name
              /\ node'.object_zone_name2 = node.object_zone_name2
              /\ node'.published = node.published

\* C21: a zone response is a success only with is_mm_zone set and a
\* non-empty zone name; any other is a rejection (cancelled, no decrement,
\* nothing stored), so no published zone activity has an empty zone.
C21_ZoneSuccessNeedsFlagAndName ==
  /\ [](\A n \in 1..Len(ArmPublished) :
          LET acts == ArmPublished[n].activities
          IN \A i \in 1..Len(acts) :
               acts[i].category = "zone" => acts[i].zone \in ZoneNames)
  /\ [][ZoneResponseStep]_vars

\* C21 witness: a response with is_mm_zone set and an empty zone name was
\* rejected while another zone check had succeeded
C21_Witness ==
  /\ Len(delivered) = 2
  /\ delivered[1].req.kind = "zone" /\ delivered[1].ok
  /\ delivered[2].req.kind = "zone"
  /\ delivered[2].is_mm_zone /\ delivered[2].zone_name = ""
  /\ node.response.state = "CANCELLED"
  /\ node.zone_requests_pending = 1
  /\ node.object_zone_name = NoneStr \/ node.object_zone_name2 = NoneStr

\* C22: for action 'couple' or 'decouple' the couple/decouple requester
\* finishes construction with exactly one published message whose single
\* activity is 'couple_action' or 'decouple_action', and the run then ends
\* with the matching response or a timeout, never cancelled.
C22_ValidCouplePublishesOnce ==
  (/\ args.prog = "couple"
   /\ args.action \in {"couple", "decouple"}
   /\ pc # "init") =>
     /\ raised = ""
     /\ Len(node.published) = 1
     /\ Len(node.published[1].activities) = 1
     /\ node.published[1].activities[1].category
          = (IF args.action = "couple" THEN "couple_action"
                                      ELSE "decouple_action")
     /\ node.response.state # "CANCELLED"
     /\ pc = "done" =>
          stdout \in {<<"Got response">>, <<"Did not get a response">>}

====
